---- MODULE Spec2Model ----
(***************************************************************************)
(* The streaming tool-calling agent loop of examples/08_agents/            *)
(* local_agent.py: stream_agent_turn (aggregation of the fragments of one  *)
(* remote-service call, the assistant message, the dispatch of the tool    *)
(* invocations) and agent_turn (the loop over rounds).                     *)
(*                                                                         *)
(* Text is a sequence of one-character strings.  An optional Python value  *)
(* is a record [k, v]: k = "omitted" (no such key/attribute), "none"       *)
(* (None) or "val" (v is the value).  A Python dict is the sequence of its *)
(* entries in insertion order.                                             *)
(***************************************************************************)
EXTENDS Integers, Sequences, FiniteSets, TLC

\* ------------------------------------------------------------------ bounds
\* fragments the remote service delivers during one user turn
MaxChunks == 3
\* largest value of agent_turn's max_iterations parameter
MaxIter == 2
\* largest tool-call index a delta carries
MaxIdx == 2

\* ------------------------------------------------------- optional values
Omitted == [k |-> "omitted", v |-> <<>>]
None == [k |-> "none", v |-> <<>>]
Val(x) == [k |-> "val", v |-> x]

\* truth value of an optional text: absent, None and "" are false
Truthy(f) == f.k = "val" /\ Len(f.v) > 0

\* `x or ""` for an optional text
OrEmpty(f) == IF Truthy(f) THEN f.v ELSE <<>>

\* `x or ""` for an optional name (names are atoms, "" is the empty name)
OrEmptyName(f) == IF f.k = "val" THEN f.v ELSE ""

\* ------------------------------------------------------------- fragments
\* one tool-call delta: tc.index, tc.id, tc.function (.name, .arguments)
Delta(idx, id, hasFunction, name, arguments) ==
    [index |-> idx, id |-> id, function |-> hasFunction,
     name |-> name, arguments |-> arguments]

\* one chunk: chunk.choices, choices[0].delta and the delta's three fields
Fragment(choices, delta, r, c, tcs) ==
    [choices |-> choices, delta |-> delta,
     reasoning_content |-> r, content |-> c, tool_calls |-> tcs]

\* ---------------------------------------------------------- aggregation
\* `reasoning = delta.reasoning_content + reasoning`
PrependText(acc, f) == IF Truthy(f) THEN f.v \o acc ELSE acc

\* `reasoning += delta.reasoning_content` / `content += delta.content`,
\* guarded by the truth value of the slice
AppendText(acc, f) == IF Truthy(f) THEN acc \o f.v ELSE acc

\* `idx in tool_calls`
HasIndex(calls, idx) == \E n \in 1..Len(calls) : calls[n].idx = idx

\* the position of idx in the dict
PosOf(calls, idx) == CHOOSE n \in 1..Len(calls) : calls[n].idx = idx

\* tool_calls[idx] = {"id": ..., "function": {"name": ..., "arguments": ...}}
NewCall(tc) ==
    [idx |-> tc.index, id |-> tc.id,
     name |-> OrEmptyName(tc.name), arguments |-> OrEmpty(tc.arguments)]

\* tool_calls[idx]["function"]["arguments"] = tc.function.arguments
ReplaceArguments(call, tc) ==
    IF Truthy(tc.arguments)
    THEN [call EXCEPT !.arguments = tc.arguments.v]
    ELSE call

\* a later delta also overwrites the identifier and the name it carries
MergeDelta(call, tc) ==
    [call EXCEPT !.id = IF tc.id.k = "val" THEN tc.id ELSE @,
                 !.name = IF tc.name.k = "val" THEN tc.name.v ELSE @,
                 !.arguments = IF Truthy(tc.arguments) THEN @ \o tc.arguments.v ELSE @]

\* tool_calls[idx]["function"]["arguments"] += tc.function.arguments
AppendArguments(call, tc) ==
    IF Truthy(tc.arguments)
    THEN [call EXCEPT !.arguments = @ \o tc.arguments.v]
    ELSE call

\* the body of `for tc in delta.tool_calls` for one delta; a new key goes to
\* the end of the dict, an existing key keeps its place
FoldDelta(calls, tc) ==
    IF HasIndex(calls, tc.index)
    THEN [calls EXCEPT ![PosOf(calls, tc.index)] = AppendArguments(@, tc)]
    ELSE Append(calls, NewCall(tc))

\* the whole inner loop over one fragment's deltas.  tc.function is read in
\* both branches, so a delta without a function part raises AttributeError
\* and the loop stops there: [ok, calls]
RECURSIVE FoldDeltas(_, _)
FoldDeltas(calls, tcs) ==
    IF tcs = <<>> THEN [ok |-> TRUE, calls |-> calls]
    ELSE IF ~Head(tcs).function THEN [ok |-> FALSE, calls |-> calls]
    ELSE FoldDeltas(FoldDelta(calls, Head(tcs)), Tail(tcs))

\* `if not chunk.choices or not chunk.choices[0].delta: continue`
Skipped(f) == ~f.choices \/ ~f.delta

\* `if hasattr(delta, "tool_calls") and delta.tool_calls`
DeltasOf(f) == IF Truthy(f.tool_calls) THEN f.tool_calls.v ELSE <<>>

\* sorted(tool_calls.keys())
RECURSIVE SortedSeq(_)
SortedSeq(S) ==
    IF S = {} THEN <<>>
    ELSE LET m == CHOOSE x \in S : \A y \in S : x <= y
         IN <<m>> \o SortedSeq(S \ {m})

Keys(calls) == {calls[n].idx : n \in 1..Len(calls)}

\* `for idx in tool_calls.keys()`: the keys in insertion order
InsertionKeys(calls) == [n \in 1..Len(calls) |-> calls[n].idx]

SortedKeys(calls) == SortedSeq(Keys(calls))

\* --------------------------------------------------- the assistant message
Msg(role, c, r, tcs, tcid) ==
    [role |-> role, content |-> c, reasoning_content |-> r,
     tool_calls |-> tcs, tool_call_id |-> tcid]

\* the list comprehension `for tc in tool_calls.values()`: the dict's values
\* in the dict's own (insertion) order.  Each entry keeps its key idx, which
\* the code's entry does not carry, so that the order can be read off.
Values(calls) == calls

\* the assistant message without `assistant_msg["content"] = None`
AssistantMsgNoMarker(c, r, calls) ==
    Msg("assistant",
        IF Len(c) > 0 THEN Val(c) ELSE Omitted,
        IF Len(r) > 0 THEN Val(r) ELSE Omitted,
        IF Len(calls) > 0 THEN Val(Values(calls)) ELSE Omitted,
        Omitted)

\* `assistant_msg = {"role": "assistant"}` and the three conditional keys
AssistantMsg(c, r, calls) ==
    Msg("assistant",
        IF Len(c) > 0 THEN Val(c)
        ELSE IF Len(calls) > 0 THEN None ELSE Omitted,
        IF Len(r) > 0 THEN Val(r) ELSE Omitted,
        IF Len(calls) > 0 THEN Val(Values(calls)) ELSE Omitted,
        Omitted)

\* messages.insert(0, msg)
InsertMsg(msgs, m) == <<m>> \o msgs

\* messages.append(msg)
AppendMsg(msgs, m) == Append(msgs, m)

ToolMsg(id, text) == Msg("tool", Val(text), Omitted, Omitted, id)

SystemMsg == Msg("system", Val(<<"S">>), Omitted, Omitted, Omitted)

UserMsg == Msg("user", Val(<<"U">>), Omitted, Omitted, Omitted)

\* ------------------------------------------------------- argument parsing
\* Argument text is written with the characters "{", "}", " ", "1" (a
\* digit) and the members "p" (standing for "path": "f") and "q" (standing
\* for "expression": "...", whatever the expression).
RECURSIVE LStrip(_)
LStrip(s) == IF s # <<>> /\ Head(s) = " " THEN LStrip(Tail(s)) ELSE s

RECURSIVE RStrip(_)
RStrip(s) ==
    IF s # <<>> /\ s[Len(s)] = " " THEN RStrip(SubSeq(s, 1, Len(s) - 1)) ELSE s

\* str.strip()
Strip(s) == LStrip(RStrip(s))

\* json.loads: whitespace around the value and inside the braces is skipped;
\* an object has no member or the one member; a run of digits is a number;
\* anything else raises JSONDecodeError
JsonLoads(s) ==
    LET t == Strip(s)
        n == Len(t)
    IN IF n >= 2 /\ t[1] = "{" /\ t[n] = "}" /\ Strip(SubSeq(t, 2, n - 1)) = <<>>
       THEN [kind |-> "dict", keys |-> {}]
       ELSE IF n >= 2 /\ t[1] = "{" /\ t[n] = "}"
               /\ Strip(SubSeq(t, 2, n - 1)) = <<"p">>
       THEN [kind |-> "dict", keys |-> {"path"}]
       ELSE IF n >= 2 /\ t[1] = "{" /\ t[n] = "}"
               /\ Strip(SubSeq(t, 2, n - 1)) = <<"q">>
       THEN [kind |-> "dict", keys |-> {"expression"}]
       ELSE IF n >= 1 /\ \A k \in 1..n : t[k] = "1"
       THEN [kind |-> "int", keys |-> {}]
       ELSE [kind |-> "error", keys |-> {}]

\* `json.loads(raw_args) if raw_args.strip() else {}`
ParseArgs(raw) ==
    IF Strip(raw) = <<>> THEN [kind |-> "dict", keys |-> {}] ELSE JsonLoads(raw)

\* ---------------------------------------------------------------------------
\* calculate and safe_eval_node
\*
\* A syntax tree is what ast.parse(expression, mode="eval") returns; every
\* node is a record with the same fields.  A number is its Python type and
\* its exact value num/den (den > 0); the floats that are no such quotient
\* (pi, e, the results of the transcendental functions and of a fractional
\* power) have sym = TRUE and no value, and so has whatever is computed from
\* them.

MaxDepth == 2

Node(kind, type, n, id, op, func, args, keywords) ==
    [kind |-> kind, type |-> type, n |-> n, id |-> id, op |-> op,
     func |-> func, args |-> args, keywords |-> keywords]

Constant(type, n) == Node("Constant", type, n, "", "", <<>>, <<>>, <<>>)

Name(id) == Node("Name", "", 0, id, "", <<>>, <<>>, <<>>)

BinOp(op, left, right) == Node("BinOp", "", 0, "", op, <<>>, <<left, right>>, <<>>)

UnaryOp(op, operand) == Node("UnaryOp", "", 0, "", op, <<>>, <<operand>>, <<>>)

\* func is a one-element sequence holding the node of the call target
CallNode(func, args, keywords) == Node("Call", "", 0, "", "", <<func>>, args, keywords)

Expression(body) == Node("Expression", "", 0, "", "", <<>>, <<body>>, <<>>)

\* any other node class: Subscript, Attribute, Starred, IfExp, Lambda, ...
OtherNode(kind) == Node(kind, "", 0, "", "", <<>>, <<>>, <<>>)

SAFE_OPERATORS == {"Add", "Sub", "Mult", "Div", "Pow", "USub", "UAdd", "Mod"}

\* the allow-list with the import hook in it
SAFE_FUNCTIONS_WITH_IMPORT ==
    {"sin", "cos", "tan", "asin", "acos", "atan", "sqrt", "log", "log10",
     "exp", "pow", "abs", "floor", "ceil", "round", "__import__"}

SAFE_FUNCTIONS ==
    {"sin", "cos", "tan", "asin", "acos", "atan", "sqrt", "log", "log10",
     "exp", "pow", "abs", "floor", "ceil", "round"}

SAFE_CONSTANTS == {"pi", "e"}

Num(t, num, den) == [t |-> t, sym |-> FALSE, num |-> num, den |-> den]

Sym(t) == [t |-> t, sym |-> TRUE, num |-> 0, den |-> 1]

\* the quotient a/b with a positive denominator, b # 0
Quot(t, a, b) == IF b < 0 THEN Num(t, 0 - a, 0 - b) ELSE Num(t, a, b)

\* the type of an arithmetic result: bool counts as int
Wider(l, r) == IF "complex" \in {l.t, r.t} THEN "complex"
               ELSE IF "float" \in {l.t, r.t} THEN "float" ELSE "int"

Returned(v) == [ok |-> TRUE, v |-> v, exc |-> "", msg |-> <<>>, called |-> <<>>]

Raised(exc, msg) ==
    [ok |-> FALSE, v |-> Sym("int"), exc |-> exc, msg |-> msg, called |-> <<>>]

\* the result with the calls made before it put in front
After(calledBefore, r) == [r EXCEPT !.called = calledBefore \o r.called]

ZeroDivision == Raised("ZeroDivisionError", <<"division by zero">>)

\* b ** k of an integer b and k >= 0; 0 ** 0 is 1
IntPow(b, k) == IF k = 0 THEN 1 ELSE b ^ k

\* operator.pow, also the builtin pow of two arguments
PowOf(l, r) ==
    IF ~l.sym /\ l.num < 0 /\ r.sym /\ r.t = "float" THEN Returned(Sym("complex"))
    ELSE IF l.sym \/ r.sym THEN Returned(Sym(Wider(l, r)))
    ELSE IF r.den # 1 /\ r.num % r.den # 0
         THEN (IF l.num = 0 THEN Returned(Num("float", 0, 1))
               ELSE IF l.num < 0 THEN Returned(Sym("complex"))
               ELSE Returned(Sym("float")))
    ELSE LET k == r.num \div r.den
         IN IF k >= 0 THEN Returned(Num(Wider(l, r), IntPow(l.num, k), IntPow(l.den, k)))
            ELSE IF l.num = 0 THEN ZeroDivision
            ELSE Returned(Quot("float", IntPow(l.den, 0 - k), IntPow(l.num, 0 - k)))

\* SAFE_OPERATORS[op_type](left, right)
BinaryApply(op, l, r) ==
    CASE op = "Pow" -> PowOf(l, r)
      [] op \in {"Div", "Mod"} /\ ~r.sym /\ r.num = 0 -> ZeroDivision
      [] op # "Pow" /\ (l.sym \/ r.sym) ->
            Returned(Sym(IF op = "Div" THEN "float" ELSE Wider(l, r)))
      [] op = "Add" ->
            Returned(Num(Wider(l, r), l.num * r.den + r.num * l.den, l.den * r.den))
      [] op = "Sub" ->
            Returned(Num(Wider(l, r), l.num * r.den - r.num * l.den, l.den * r.den))
      [] op = "Mult" ->
            Returned(Num(Wider(l, r), l.num * r.num, l.den * r.den))
      [] op = "Div" ->
            Returned(Quot("float", l.num * r.den, l.den * r.num))
      [] op = "Mod" ->
            LET q == Quot("float", l.num * r.den, l.den * r.num)
                flo == q.num \div q.den
            IN Returned(Num(Wider(l, r),
                            l.num * r.den - r.num * flo * l.den, l.den * r.den))

\* SAFE_OPERATORS[op_type](operand)
UnaryApply(op, v) ==
    IF v.sym THEN Returned(Sym(Wider(v, v)))
    ELSE IF op = "USub" THEN Returned(Num(Wider(v, v), 0 - v.num, v.den))
    ELSE Returned(Num(Wider(v, v), v.num, v.den))

\* the numbers of positional arguments the function takes
Arity(name) ==
    CASE name \in {"log", "round"} -> {1, 2}
      [] name = "pow" -> {2, 3}
      [] OTHER -> {1}

\* SAFE_FUNCTIONS[name](*args): the call of the function itself
FunctionApply(name, args) ==
    IF Len(args) \notin Arity(name)
    THEN Raised("TypeError", <<name, "() takes another number of arguments">>)
    ELSE CASE name = "abs" ->
                (IF args[1].sym THEN Returned(Sym(Wider(args[1], args[1])))
                 ELSE Returned(Num(Wider(args[1], args[1]),
                                   IF args[1].num < 0 THEN 0 - args[1].num
                                   ELSE args[1].num, args[1].den)))
           [] name = "floor" ->
                (IF args[1].sym THEN Returned(Sym("int"))
                 ELSE Returned(Num("int", args[1].num \div args[1].den, 1)))
           [] name = "pow" /\ Len(args) = 2 -> PowOf(args[1], args[2])
           [] name \in {"ceil", "round"} /\ Len(args) = 1 -> Returned(Sym("int"))
           [] OTHER -> Returned(Sym("float"))

\* type(node.value) of a literal is int, float or a subclass (bool)
IsIntOrFloat(type) == type \in {"int", "float", "bool"}

\* the id of a call target that is a Name, else the name of its class
TargetName(func) == IF func.kind = "Name" THEN func.id ELSE func.kind

RECURSIVE safe_eval_node(_)
RECURSIVE EvalArgs(_)

\* [safe_eval_node(arg) for arg in node.args]: the values in order, or the
\* first failure, and the calls made on the way
EvalArgs(args) ==
    IF args = <<>> THEN [ok |-> TRUE, vs |-> <<>>, fail |-> Raised("", <<>>), called |-> <<>>]
    ELSE LET first == safe_eval_node(Head(args))
         IN IF ~first.ok
            THEN [ok |-> FALSE, vs |-> <<>>, fail |-> first, called |-> first.called]
            ELSE LET rest == EvalArgs(Tail(args))
                 IN IF ~rest.ok
                    THEN [ok |-> FALSE, vs |-> <<>>,
                          fail |-> After(first.called, rest.fail),
                          called |-> first.called \o rest.called]
                    ELSE [ok |-> TRUE, vs |-> <<first.v>> \o rest.vs,
                          fail |-> rest.fail,
                          called |-> first.called \o rest.called]

safe_eval_node(node) ==
    CASE node.kind = "Constant" ->
            (IF IsIntOrFloat(node.type)
             THEN Returned(Num(node.type, node.n, 1))
             ELSE Raised("ValueError", <<"Unsupported constant type: ", node.type>>))
      [] node.kind = "Name" ->
            (IF node.id \in SAFE_CONSTANTS THEN Returned(Sym("float"))
             ELSE Raised("ValueError", <<"Unknown variable: ", node.id>>))
      [] node.kind \in {"BinOp", "UnaryOp"} ->
            (IF node.op \notin SAFE_OPERATORS
             THEN Raised("ValueError", <<"Unsupported operator: ", node.op>>)
             ELSE LET operands == EvalArgs(node.args)
                  IN IF ~operands.ok THEN operands.fail
                     ELSE After(operands.called,
                                IF node.kind = "BinOp"
                                THEN BinaryApply(node.op, operands.vs[1], operands.vs[2])
                                ELSE UnaryApply(node.op, operands.vs[1])))
      [] node.kind = "Call" ->
            (IF node.func[1].kind = "Name" /\ node.func[1].id \in SAFE_FUNCTIONS
             THEN LET operands == EvalArgs(node.args)
                  IN IF ~operands.ok THEN operands.fail
                     ELSE After(operands.called \o <<node.func[1].id>>,
                                FunctionApply(node.func[1].id, operands.vs))
             ELSE Raised("ValueError",
                         <<"Unsupported function: ", TargetName(node.func[1])>>))
      [] node.kind = "Expression" -> safe_eval_node(node.args[1])
      [] OTHER ->
            Raised("ValueError", <<"Unsupported expression type: ", node.kind>>)

\* the argument of calculate: text that ast.parse rejects, or its tree
Unparsable == [parsed |-> FALSE, tree |-> <<>>]

Parsed(body) == [parsed |-> TRUE, tree |-> Expression(body)]

\* what calculate returned, and the allow-listed functions it called
CalcReturn(value, names) == [done |-> TRUE, ret |-> value, called |-> names]

calculate(expression) ==
    IF ~expression.parsed
    THEN CalcReturn(<<<<"error", <<"Invalid syntax: ", "invalid syntax">>>>>>, <<>>)
    ELSE LET r == safe_eval_node(expression.tree)
         IN CASE r.ok ->
                   CalcReturn(<<<<"expression", expression>>, <<"result", r.v>>>>,
                              r.called)
              [] r.exc = "ZeroDivisionError" ->
                   CalcReturn(<<<<"error", <<"Division by zero">>>>>>, r.called)
              [] OTHER -> CalcReturn(<<<<"error", r.msg>>>>, r.called)

\* ---------------------------------------------------------- tool registry
FUNCTION_MAP ==
    {"read_file", "write_file", "list_directory", "run_command",
     "calculate", "get_datetime"}

\* the parameters of each tool function and those without a default
Params(name) ==
    CASE name = "read_file" -> {"path"}
      [] name = "write_file" -> {"path", "content"}
      [] name = "list_directory" -> {"path"}
      [] name = "run_command" -> {"command"}
      [] name = "calculate" -> {"expression"}
      [] name = "get_datetime" -> {}

Required(name) == IF name = "list_directory" THEN {} ELSE Params(name)

\* `f(**func_args)` binds: no parameter missing, no unexpected keyword
Binds(name, keys) == Required(name) \subseteq keys /\ keys \subseteq Params(name)

\* A result payload is a dict: the sequence of its <<key, value>> entries.
ErrorResult(desc) == << <<"error", desc>> >>

OkResult(name) == << <<"tool", <<name>> >>, <<"status", <<"ok">> >> >>

\* the expressions a model's call of calculate carries: 2, 2/0, an operator
\* outside the allow-list, (-2) ** (1.0/2), and text that does not parse
CalcInputs ==
    {Parsed(Constant("int", 2)),
     Parsed(BinOp("Div", Constant("int", 2), Constant("int", 0))),
     Parsed(UnaryOp("Not", Constant("int", 2))),
     Parsed(BinOp("Pow", UnaryOp("USub", Constant("int", 2)),
                  BinOp("Div", Constant("float", 1), Constant("int", 2)))),
     Unparsable}

\* what a tool function that was entered can return: every body but
\* get_datetime's is wrapped in try/except and may return an error payload;
\* calculate returns what it computes from its expression
ToolReturns(name) ==
    IF name = "get_datetime" THEN {OkResult(name)}
    ELSE IF name = "calculate" THEN {calculate(e).ret : e \in CalcInputs}
    ELSE {OkResult(name), ErrorResult(<<"tool error: ", name>>)}

\* `"error" in result`
HasError(res) == \E n \in 1..Len(res) : res[n][1] = "error"

\* json.dumps of a payload: {"k": v, "k": v}
RECURSIVE DumpsEntries(_)
DumpsEntries(res) ==
    IF res = <<>> THEN <<>>
    ELSE <<res[1][1], ":", res[1][2]>>
         \o (IF Len(res) > 1 THEN <<",">> ELSE <<>>)
         \o DumpsEntries(Tail(res))

Dumps(res) == <<"{">> \o DumpsEntries(res) \o <<"}">>

\* json.dumps raises TypeError for a value that is no str, int, float, bool,
\* None, list or dict: of the values of a payload only the result of
\* calculate can be one, a complex number
Serializable(res) ==
    \A n \in 1..Len(res) : res[n][1] = "result" => res[n][2].t # "complex"

\* --------------------------------------------------------------- dispatch
\* the JSONDecodeError branch's payload
ParseErrorResult == ErrorResult(<<"Invalid arguments JSON: ", "JSONDecodeError">>)

\* the else branch of `if func_name in FUNCTION_MAP`
UnknownResult(name) == ErrorResult(<<"Unknown function: ", name>>)

\* `if func_name in FUNCTION_MAP`
InRegistry(name) == name \in FUNCTION_MAP

\* One pass of the body of `for idx in sorted(tool_calls.keys())` for the
\* dict entry tc: the set of its possible outcomes.  An outcome either
\* appends one tool message (raised = "") or leaves the function with the
\* exception named in raised; called says whether the tool function was
\* called (the call itself is what raises TypeError when binding fails).
Outcome(raised, called, res) == [raised |-> raised, called |-> called, res |-> res]

Dispatch(tc) ==
    LET a == ParseArgs(tc.arguments)
    IN IF a.kind = "error" THEN {Outcome("", FALSE, ParseErrorResult)}
       \* `func_args.items()` on a value that is not a dict
       ELSE IF a.kind # "dict" THEN {Outcome("AttributeError(items)", FALSE, <<>>)}
       ELSE IF ~InRegistry(tc.name) THEN {Outcome("", FALSE, UnknownResult(tc.name))}
       ELSE IF ~Binds(tc.name, a.keys) THEN {Outcome("TypeError", TRUE, <<>>)}
       ELSE {IF Serializable(r) THEN Outcome("", TRUE, r)
             ELSE Outcome("TypeError(json.dumps)", TRUE, <<>>) :
             r \in ToolReturns(tc.name)}

\* -------------------------------------------------------------- agent_turn
\* `while True`
LoopForever(n, max) == TRUE

\* `for i in range(max_iterations + 1)`
LoopContinuesInclusive(n, max) == n <= max

\* `for i in range(max_iterations)`: another round is started
LoopContinues(n, max) == n < max

\* `except Exception: continue` around the remote-service call
ServiceErrorRetry == "loop"

\* an exception of client.create_chat or of the iteration over its response
\* is caught nowhere in stream_agent_turn and agent_turn
ServiceErrorTarget == "raised"

\* a text or dict that is kept from the round before
KeptLocal(old) == old

\* `reasoning = ""`, `content = ""`, `tool_calls = {}` at the start of
\* every call of stream_agent_turn
FreshLocal(old) == <<>>

\* `return content or None`
FinalAnswerOrNone(c) == IF Len(c) > 0 THEN Val(c) ELSE None

\* `return content  # final answer`
FinalAnswer(c) == Val(c)

\* `if result:`
IsTruthyResult(res) == Truthy(res)

\* `if result is not None`
IsFinal(res) == res.k # "none"

\* messages[-1].get("content", "")
LastContent(msgs) ==
    LET m == msgs[Len(msgs)]
    IN IF m.content.k = "omitted" THEN Val(<<>>) ELSE m.content

\* ------------------------------------------------------------------ state
VARIABLES
    messages,        \* the transcript
    max_iterations,  \* agent_turn's parameter
    pc,              \* where the user turn stands
    i,               \* rounds started by agent_turn's loop
    reasoning,       \* stream_agent_turn's locals
    content,
    tool_calls,
    todo,            \* the indices the dispatch loop has still to visit
    result,          \* what stream_agent_turn returned
    ret,             \* what agent_turn returned
    err,             \* the exception that left agent_turn, "" if none
    exit,            \* how agent_turn returned: "final", "exhausted", "" not yet
    stream,          \* history: the fragments consumed in this round
    nchunks,         \* history: fragments consumed so far
    calls,           \* history: remote-service calls made
    base,            \* history: length of the transcript when the round began
    invoked,         \* history: the tool-function calls made in this round
    returned,        \* history: what each round of this user turn returned
    turns,           \* repl: user inputs handed to agent_turn
    interrupts,      \* repl: history, KeyboardInterrupts caught
    expr,            \* calculate: the parse of its argument
    payload          \* calculate: what it returned and called

vars ==
    <<messages, max_iterations, pc, i, reasoning, content, tool_calls, todo,
      result, ret, err, exit, stream, nchunks, calls, base, invoked, returned,
      turns, interrupts, expr, payload>>

outer == <<turns, interrupts>>

calc == <<expr, payload>>

\* calculate is not called
NoExpr == [parsed |-> FALSE, tree |-> <<>>]

NoPayload == [done |-> FALSE, ret |-> <<>>, called |-> <<>>]

locals == <<reasoning, content, tool_calls>>

\* agent_turn is entered, as single_query enters it
AgentInit ==
    /\ messages = <<SystemMsg, UserMsg>>
    /\ max_iterations \in 0..MaxIter
    /\ pc = "loop"
    /\ i = 0
    /\ reasoning = <<>>
    /\ content = <<>>
    /\ tool_calls = <<>>
    /\ todo = <<>>
    /\ result = None
    /\ ret = None
    /\ err = ""
    /\ exit = ""
    /\ stream = <<>>
    /\ nchunks = 0
    /\ calls = 0
    /\ base = 2
    /\ invoked = <<>>
    /\ returned = <<>>
    /\ turns = 1
    /\ interrupts = 0

Init == AgentInit /\ expr = NoExpr /\ payload = NoPayload

\* agent_turn's loop head starts a round: stream_agent_turn calls the remote
\* service and initialises its locals
Call ==
    /\ pc = "loop"
    /\ LoopContinues(i, max_iterations)
    /\ i' = i + 1
    /\ calls' = calls + 1
    /\ reasoning' = FreshLocal(reasoning)
    /\ content' = FreshLocal(content)
    /\ tool_calls' = FreshLocal(tool_calls)
    /\ todo' = <<>>
    /\ stream' = <<>>
    /\ invoked' = <<>>
    /\ base' = Len(messages)
    /\ pc' = "stream"
    /\ UNCHANGED <<messages, max_iterations, result, ret, err, exit, nchunks,
                   returned>>
    /\ UNCHANGED <<outer, calc>>

\* client.create_chat raises: nothing in agent_turn catches it
CallFails ==
    /\ pc = "loop"
    /\ LoopContinues(i, max_iterations)
    /\ i' = i + 1
    /\ calls' = calls + 1
    /\ base' = Len(messages)
    /\ stream' = <<>>
    /\ invoked' = <<>>
    /\ reasoning' = <<>>
    /\ content' = <<>>
    /\ tool_calls' = <<>>
    /\ todo' = <<>>
    /\ pc' = ServiceErrorTarget
    /\ err' = "ServiceError"
    /\ UNCHANGED <<messages, max_iterations, result, ret, exit, nchunks,
                   returned>>
    /\ UNCHANGED <<outer, calc>>

\* the loop ran out of rounds: `return messages[-1].get("content", "")`
Exhausted ==
    /\ pc = "loop"
    /\ ~LoopContinues(i, max_iterations)
    /\ ret' = LastContent(messages)
    /\ exit' = "exhausted"
    /\ pc' = "done"
    /\ UNCHANGED <<messages, max_iterations, i, locals, todo, result, err,
                   stream, nchunks, calls, base, invoked, returned>>
    /\ UNCHANGED <<outer, calc>>

\* one pass of `for chunk in response` over a fragment drawn from F
Chunk(F) ==
    /\ pc = "stream"
    /\ nchunks < MaxChunks
    /\ \E f \in F :
        /\ stream' = Append(stream, f)
        /\ nchunks' = nchunks + 1
        /\ IF Skipped(f)
           THEN UNCHANGED <<locals, pc, err>>
           ELSE LET folded == FoldDeltas(tool_calls, DeltasOf(f))
                IN /\ reasoning' = AppendText(reasoning, f.reasoning_content)
                   /\ content' = AppendText(content, f.content)
                   /\ tool_calls' = folded.calls
                   /\ pc' = IF folded.ok THEN "stream" ELSE "raised"
                   /\ err' = IF folded.ok THEN "" ELSE "AttributeError(NoneType)"
    /\ UNCHANGED <<messages, max_iterations, i, todo, result, ret, exit, calls,
                   base, invoked, returned>>
    /\ UNCHANGED <<outer, calc>>

\* the stream breaks while it is consumed
StreamFails ==
    /\ pc = "stream"
    /\ pc' = ServiceErrorTarget
    /\ err' = "ServiceError"
    /\ UNCHANGED <<messages, max_iterations, i, locals, todo, result, ret, exit,
                   stream, nchunks, calls, base, invoked, returned>>
    /\ UNCHANGED <<outer, calc>>

\* the stream is exhausted: the assistant message is built and appended;
\* without tool calls stream_agent_turn returns the answer text
EndStream ==
    /\ pc = "stream"
    /\ messages' = AppendMsg(messages, AssistantMsg(content, reasoning, tool_calls))
    /\ IF Len(tool_calls) > 0
       THEN /\ todo' = SortedKeys(tool_calls)
            /\ pc' = "tools"
            /\ UNCHANGED <<result, returned>>
       ELSE /\ result' = FinalAnswer(content)
            /\ returned' = Append(returned, result')
            /\ pc' = "ret"
            /\ UNCHANGED todo
    /\ UNCHANGED <<max_iterations, i, locals, ret, err, exit, stream, nchunks,
                   calls, base, invoked>>
    /\ UNCHANGED <<outer, calc>>

\* one pass of the dispatch loop, for the smallest index not yet visited
ExecTool ==
    /\ pc = "tools"
    /\ todo # <<>>
    /\ LET tc == tool_calls[PosOf(tool_calls, Head(todo))]
       IN \E o \in Dispatch(tc) :
            /\ invoked' = IF o.called
                          THEN Append(invoked, [idx |-> tc.idx, name |-> tc.name])
                          ELSE invoked
            /\ IF o.raised = ""
               THEN /\ messages' = AppendMsg(messages, ToolMsg(tc.id, Dumps(o.res)))
                    /\ todo' = Tail(todo)
                    /\ UNCHANGED <<pc, err>>
               ELSE /\ pc' = "raised"
                    /\ err' = o.raised
                    /\ UNCHANGED <<messages, todo>>
    /\ UNCHANGED <<max_iterations, i, locals, result, ret, exit, stream, nchunks,
                   calls, base, returned>>
    /\ UNCHANGED <<outer, calc>>

\* the dispatch loop is over: `return None`
EndTools ==
    /\ pc = "tools"
    /\ todo = <<>>
    /\ result' = None
    /\ returned' = Append(returned, result')
    /\ pc' = "ret"
    /\ UNCHANGED <<messages, max_iterations, i, locals, todo, ret, err, exit,
                   stream, nchunks, calls, base, invoked>>
    /\ UNCHANGED <<outer, calc>>

\* agent_turn looks at what the round returned
Return ==
    /\ pc = "ret"
    /\ IF IsFinal(result)
       THEN /\ ret' = result
            /\ exit' = "final"
            /\ pc' = "done"
       ELSE /\ pc' = "loop"
            /\ UNCHANGED <<ret, exit>>
    /\ UNCHANGED <<messages, max_iterations, i, locals, todo, result, err,
                   stream, nchunks, calls, base, invoked, returned>>
    /\ UNCHANGED <<outer, calc>>

\* ------------------------------------------------- the streams considered
Text(s) == Val(s)

\* tc.id as the service assigns it to index idx
IdOf(idx) == Val(<<"call", idx>>)

NoChoices == Fragment(FALSE, FALSE, None, None, None)

NoDelta == Fragment(TRUE, FALSE, None, None, None)

ReasoningFragment(s) == Fragment(TRUE, TRUE, Text(s), None, None)

ContentFragment(s) == Fragment(TRUE, TRUE, None, Text(s), None)

ToolFragment(tcs) == Fragment(TRUE, TRUE, None, None, Val(tcs))

\* a delta that opens an invocation, and one that only continues its text
Opening(idx, name, args) == Delta(idx, IdOf(idx), TRUE, Val(name), args)

Continuing(idx, args) == Delta(idx, None, TRUE, None, args)

\* a delta that carries another identifier and another name for idx
Relabelling(idx, args) == Delta(idx, IdOf(idx + 1), TRUE, Val("read_file"), args)

Idx == 0..MaxIdx

\* streams that exercise the loop: answers, reasoning, and invocations that
\* succeed, fail to parse, name no tool or do not bind
LoopFragments ==
    {NoChoices, ReasoningFragment(<<"a">>), ContentFragment(<<"x">>)}
    \cup {ToolFragment(<<Opening(n, name, Text(args))>>) :
            n \in {0, 1}, name \in {"read_file", "nope"},
            args \in {<<"{", "p", "}">>, <<"{">>}}
    \cup {ToolFragment(<<Opening(n, "read_file", Text(<<"{", "}">>))>>) : n \in {0, 1}}

Next ==
    \/ Call
    \/ CallFails
    \/ Exhausted
    \/ Chunk(LoopFragments)
    \/ StreamFails
    \/ EndStream
    \/ ExecTool
    \/ EndTools
    \/ Return

Spec == Init /\ [][Next]_vars

\* One round over streams that exercise the aggregator: fragments without
\* choices or delta, slices of both texts (also empty, also both in one
\* fragment), for every index a delta that opens the invocation and deltas
\* that continue its argument text, in any order and interleaving, and a
\* delta without a function part.
AggFragments ==
    {NoChoices, NoDelta,
     ReasoningFragment(<<"a">>), ReasoningFragment(<<"b">>),
     ContentFragment(<<"x">>), ContentFragment(<<"y">>),
     Fragment(TRUE, TRUE, Text(<<>>), Text(<<>>), Val(<<>>)),
     Fragment(TRUE, TRUE, Text(<<"a">>), Text(<<"x">>), None)}
    \cup {ToolFragment(<<Opening(n, "nope", Text(<<"{">>))>>) : n \in Idx}
    \cup {ToolFragment(<<Continuing(n, Text(<<"}">>))>>) : n \in Idx}
    \cup {ToolFragment(<<Opening(n, "nope", None)>>) : n \in Idx}
    \cup {ToolFragment(<<Continuing(1, Text(<<"1">>)), Continuing(0, Text(<<"{">>))>>),
          ToolFragment(<<Delta(0, IdOf(0), FALSE, None, None)>>),
          ToolFragment(<<Relabelling(0, Text(<<"}">>))>>)}

InitOne == Init /\ max_iterations = 1

NextAgg ==
    \/ Call
    \/ CallFails
    \/ Exhausted
    \/ Chunk(AggFragments)
    \/ StreamFails
    \/ EndStream
    \/ ExecTool
    \/ EndTools
    \/ Return

SpecAgg == InitOne /\ [][NextAgg]_vars

\* One round over streams that exercise the dispatch: for two indices, every
\* kind of final argument text (absent, blank, an object with and without the
\* member, a number, malformed, split over two deltas) for a tool that needs
\* an argument, a tool that takes none and a name that is no tool.
ToolArgs ==
    {None, Text(<<" ">>), Text(<<"{", "}">>), Text(<<"{", " ", "p", "}">>),
     Text(<<"1">>), Text(<<"{">>)}

ToolFragments ==
    {ContentFragment(<<"x">>)}
    \cup {ToolFragment(<<Opening(0, "read_file", args)>>) : args \in ToolArgs}
    \cup {ToolFragment(<<Opening(0, "nope", args)>>) :
            args \in ToolArgs \ {None, Text(<<" ">>)}}
    \cup {ToolFragment(<<Opening(0, "get_datetime", args)>>) :
            args \in {None, Text(<<"{", " ", "p", "}">>)}}
    \cup {ToolFragment(<<Continuing(0, Text(<<"p", "}">>))>>)}
    \cup {ToolFragment(<<Opening(1, "read_file", args)>>) :
            args \in ToolArgs \ {None, Text(<<" ">>)}}
    \cup {ToolFragment(<<Opening(1, "nope", Text(<<"{", "}">>))>>)}
    \cup {ToolFragment(<<Opening(0, "calculate", Text(<<"{", "q", "}">>))>>)}

NextTools ==
    \/ Call
    \/ CallFails
    \/ Exhausted
    \/ Chunk(ToolFragments)
    \/ StreamFails
    \/ EndStream
    \/ ExecTool
    \/ EndTools
    \/ Return

SpecTools == InitOne /\ [][NextTools]_vars

\* ------------------------------------------------------------- properties
Range(s) == {s[n] : n \in 1..Len(s)}

\* an exception left stream_agent_turn from inside the dispatch loop
DispatchRaised ==
    pc = "raised" /\ err \notin {"ServiceError", "AttributeError(NoneType)"}

\* the current round's call of stream_agent_turn has returned
RoundReturned == i >= 1 /\ pc \in {"ret", "loop", "done"}

\* the current round's stream was consumed to its end
AfterStream == i >= 1 /\ (pc \in {"tools", "ret", "loop", "done"} \/ DispatchRaised)

CallOf(idx) == tool_calls[PosOf(tool_calls, idx)]

\* the dispatch loop raised while it processed the invocation of idx
RaisedAt(idx) == DispatchRaised /\ todo # <<>> /\ Head(todo) = idx

\* the dispatch loop has processed the invocation of idx
Visited(idx) ==
    /\ AfterStream
    /\ idx \in Keys(tool_calls)
    /\ (idx \notin Range(todo) \/ RaisedAt(idx))

\* the tool function of the invocation of idx was called
Called(idx) == \E n \in 1..Len(invoked) : invoked[n].idx = idx

\* where in the transcript the tool message of idx belongs: after the
\* assistant message, in ascending index order
SlotOf(idx) == base + 1 + Cardinality({k \in Keys(tool_calls) : k <= idx})

\* the tool message of idx is in its place
HasToolMsg(idx) ==
    /\ Len(messages) >= SlotOf(idx)
    /\ messages[SlotOf(idx)].role = "tool"
    /\ messages[SlotOf(idx)].tool_call_id = CallOf(idx).id

\* a serialized payload whose first key is "error"
IsErrorText(text) == Len(text) >= 2 /\ text[2] = "error"

\* the deltas a fragment carries
CarriedDeltas(f) == IF f.tool_calls.k = "val" THEN f.tool_calls.v ELSE <<>>

NoToolDelta(frags) == \A n \in 1..Len(frags) : CarriedDeltas(frags[n]) = <<>>

\* C1: the tool invocation list stored in the assistant message of a round is
\* ordered by strictly ascending index, whatever the arrival order.
C1_ToolListAscendingByIndex ==
    AfterStream =>
        LET m == messages[base + 1]
        IN m.tool_calls.k = "val" =>
             \A a, b \in 1..Len(m.tool_calls.v) :
                a < b => m.tool_calls.v[a].idx < m.tool_calls.v[b].idx

\* C2: every call of a registered tool function, also one whose arguments do
\* not match its parameters, ends in a tool message for that invocation: the
\* failure does not leave the turn, and the turn returns None.
C2_ToolFailureBecomesErrorResult ==
    /\ \A n \in 1..Len(invoked) :
          ~RaisedAt(invoked[n].idx) /\ HasToolMsg(invoked[n].idx)
    /\ (RoundReturned /\ invoked # <<>>) => result = None

\* C3: an invocation whose argument text does not parse as a key/value
\* object is not called, gets its one tool message with an error payload,
\* and does not stop the dispatch loop.
C3_UnparsedArgumentsBecomeErrorMessage ==
    \A idx \in Keys(tool_calls) :
        (Visited(idx) /\ ParseArgs(CallOf(idx).arguments).kind # "dict") =>
            /\ ~Called(idx)
            /\ ~RaisedAt(idx)
            /\ HasToolMsg(idx)
            /\ IsErrorText(messages[SlotOf(idx)].content.v)

\* C4: a call of stream_agent_turn whose stream brought n >= 1 indices
\* returns None, having appended one assistant message and then n tool
\* messages whose tool_call_id follow the ascending indices.
C4_ToolRoundAppendsOnePerInvocation ==
    ((RoundReturned \/ DispatchRaised) /\ Keys(tool_calls) # {}) =>
        /\ pc # "raised"
        /\ result = None
        /\ Len(messages) = base + 1 + Cardinality(Keys(tool_calls))
        /\ messages[base + 1].role = "assistant"
        /\ \A idx \in Keys(tool_calls) : HasToolMsg(idx)

\* C5: a call of stream_agent_turn whose stream brought no tool-call delta
\* returns the accumulated answer text, never None, having appended exactly
\* one message, the assistant message.
C5_NoToolCallsGivesFinalAnswer ==
    (AfterStream /\ NoToolDelta(stream)) =>
        /\ RoundReturned
        /\ result = Val(content)
        /\ Len(messages) = base + 1
        /\ messages[base + 1].role = "assistant"

C5_Witness ==
    /\ pc = "ret"
    /\ NoToolDelta(stream)
    /\ Len(stream) >= 1
    /\ result = Val(<<>>)

\* C6: when every round returned None, agent_turn has made exactly
\* max_iterations rounds and remote-service calls, never more, and has
\* returned the content of the last message of the transcript without raising.
C6_ExhaustedAfterMaxIterations ==
    /\ calls <= max_iterations
    /\ (pc = "done" /\ \A n \in 1..Len(returned) : returned[n] = None) =>
          /\ Len(returned) = max_iterations
          /\ calls = max_iterations
          /\ err = ""
          /\ ret = messages[Len(messages)].content

C6_Witness ==
    /\ pc = "done"
    /\ max_iterations >= 2
    /\ Len(returned) = max_iterations
    /\ \A n \in 1..Len(returned) : returned[n] = None

\* C7: the first round that returns an answer text, also the empty one, is
\* the last round: no further remote-service call is made and agent_turn
\* returns that text.
C7_StopsAtFirstFinalAnswer ==
    \A n \in 1..Len(returned) :
        returned[n].k = "val" =>
            /\ n = Len(returned)
            /\ calls = n
            /\ pc \in {"ret", "done"}
            /\ pc = "done" => ret = returned[n]

C7_Witness ==
    /\ pc = "done"
    /\ Len(returned) = 1
    /\ max_iterations = 2
    /\ ret = Val(<<>>)

\* the slice an optional text field contributes
SliceOf(f) == IF f.k = "val" THEN f.v ELSE <<>>

RECURSIVE ReasoningOf(_)
ReasoningOf(frags) ==
    IF frags = <<>> THEN <<>>
    ELSE SliceOf(Head(frags).reasoning_content) \o ReasoningOf(Tail(frags))

RECURSIVE ContentOf(_)
ContentOf(frags) ==
    IF frags = <<>> THEN <<>>
    ELSE SliceOf(Head(frags).content) \o ContentOf(Tail(frags))

\* C8: at the end of a stream the reasoning text is the concatenation of the
\* fragments' reasoning slices in arrival order, and the answer text that of
\* their answer slices.
C8_TextIsConcatenationOfSlices ==
    AfterStream =>
        /\ reasoning = ReasoningOf(stream)
        /\ content = ContentOf(stream)

C8_Witness ==
    /\ pc = "ret"
    /\ Len(stream) = 3
    /\ reasoning = <<"b", "a">>
    /\ content = <<"x">>

RECURSIVE AllDeltas(_)
AllDeltas(frags) ==
    IF frags = <<>> THEN <<>>
    ELSE CarriedDeltas(Head(frags)) \o AllDeltas(Tail(frags))

RECURSIVE ArgumentsOf(_, _)
ArgumentsOf(deltas, idx) ==
    IF deltas = <<>> THEN <<>>
    ELSE (IF Head(deltas).index = idx THEN SliceOf(Head(deltas).arguments) ELSE <<>>)
         \o ArgumentsOf(Tail(deltas), idx)

\* C9: at the end of a stream every index seen has an invocation whose
\* argument text is the concatenation, in arrival order, of the argument
\* text of all deltas bearing that index.
C9_ArgumentsAreConcatenationOfDeltas ==
    AfterStream =>
        LET ds == AllDeltas(stream)
        IN /\ Keys(tool_calls) = {ds[n].index : n \in 1..Len(ds)}
           /\ \A idx \in Keys(tool_calls) :
                CallOf(idx).arguments = ArgumentsOf(ds, idx)

C9_Witness ==
    /\ pc = "tools"
    /\ Len(stream) = 3
    /\ \A n \in 1..3 : Len(CarriedDeltas(stream[n])) = 1
    /\ CarriedDeltas(stream[1])[1].index = 0
    /\ CarriedDeltas(stream[2])[1].index = 1
    /\ CarriedDeltas(stream[3])[1].index = 0
    /\ CallOf(0).arguments = <<"{", "}">>
    /\ CallOf(1).arguments = <<"{">>

\* an invocation whose arguments parsed and whose name is no key of
\* FUNCTION_MAP
UnknownTool(idx) ==
    /\ ParseArgs(CallOf(idx).arguments).kind = "dict"
    /\ CallOf(idx).name \notin FUNCTION_MAP

UnknownToolMsg(idx) ==
    /\ HasToolMsg(idx)
    /\ messages[SlotOf(idx)].content =
         Val(<<"{", "error", ":", <<"Unknown function: ", CallOf(idx).name>>, "}">>)

\* The handling of an unknown name by itself: once the dispatch loop has
\* reached such an invocation, no tool function was called for it, its tool
\* message is in place and the loop did not stop at it.
UnknownToolHandledWhenReached ==
    \A idx \in Keys(tool_calls) :
        (Visited(idx) /\ UnknownTool(idx)) =>
            ~Called(idx) /\ ~RaisedAt(idx) /\ UnknownToolMsg(idx)

\* C10: every invocation whose arguments parsed and whose name is no key of
\* FUNCTION_MAP is not called and gets the tool message {"error": "Unknown
\* function: <name>"} under its identifier, and the turn goes on over the
\* other invocations and returns None.
C10_UnknownToolBecomesErrorMessage ==
    (RoundReturned \/ DispatchRaised) =>
        \A idx \in Keys(tool_calls) :
            UnknownTool(idx) =>
                /\ ~Called(idx)
                /\ UnknownToolMsg(idx)
                /\ pc # "raised"
                /\ result = None

IsPrefix(s, t) == Len(s) <= Len(t) /\ SubSeq(t, 1, Len(s)) = s

\* C11: during agent_turn the transcript only grows by appends: in every
\* step the transcript before is a prefix of the transcript after, so that no
\* message is removed, moved or altered, and the first message stays the
\* system message.
C11_TranscriptOnlyGrowsByAppends ==
    [][IsPrefix(messages, messages') /\ messages'[1] = SystemMsg]_vars

C11_Witness ==
    /\ pc = "done"
    /\ i = 2
    /\ Len(messages) >= 6
    /\ messages[1] = SystemMsg
    /\ messages[2] = UserMsg

\* the fold of a fragment's tool-call deltas has raised out of the turn
AggregationRaised == pc = "raised" /\ err = "AttributeError(NoneType)"

\* C12: no fragment with an absent optional field fails the turn: whichever
\* of choices, delta, reasoning text, answer text, tool-call list, or a
\* tool-call delta's identifier, function part, name or argument text is
\* absent, the fragment is consumed, the absent field contributes nothing and
\* the aggregation goes on.
C12_AbsentFieldsContributeNothing ==
    /\ ~AggregationRaised
    /\ pc = "stream" =>
          LET ds == AllDeltas(stream)
          IN /\ reasoning = ReasoningOf(stream)
             /\ content = ContentOf(stream)
             /\ Keys(tool_calls) = {ds[n].index : n \in 1..Len(ds)}
             /\ \A idx \in Keys(tool_calls) :
                  CallOf(idx).arguments = ArgumentsOf(ds, idx)

\* ---------------------------------------------------------------------------
\* repl: the prompt loop around agent_turn

\* user inputs the prompt loop hands to agent_turn
MaxTurns == 2

\* `messages = [system]` in the KeyboardInterrupt handler
InterruptedTranscriptReset(msgs) == <<SystemMsg>>

\* `except KeyboardInterrupt: console.print(...)`: the handler does not touch
\* messages
InterruptedTranscript(msgs) == msgs

\* the positions inside agent_turn
InTurn == {"loop", "stream", "tools", "ret"}

\* `messages = [system]`, then the while loop waits in console.input
InitRepl ==
    /\ messages = <<SystemMsg>>
    /\ max_iterations = MaxIter
    /\ pc = "prompt"
    /\ i = 0
    /\ reasoning = <<>>
    /\ content = <<>>
    /\ tool_calls = <<>>
    /\ todo = <<>>
    /\ result = None
    /\ ret = None
    /\ err = ""
    /\ exit = ""
    /\ stream = <<>>
    /\ nchunks = 0
    /\ calls = 0
    /\ base = 1
    /\ invoked = <<>>
    /\ returned = <<>>
    /\ turns = 0
    /\ interrupts = 0
    /\ expr = NoExpr
    /\ payload = NoPayload

\* the frames of agent_turn and stream_agent_turn are gone or not yet there
NoFrame ==
    /\ i' = 0
    /\ reasoning' = <<>>
    /\ content' = <<>>
    /\ tool_calls' = <<>>
    /\ todo' = <<>>
    /\ result' = None
    /\ ret' = None
    /\ exit' = ""
    /\ stream' = <<>>
    /\ calls' = 0
    /\ invoked' = <<>>
    /\ returned' = <<>>

\* a line that is no command: the user message is appended and agent_turn
\* is entered
UserInput ==
    /\ pc = "prompt"
    /\ turns < MaxTurns
    /\ turns' = turns + 1
    /\ messages' = AppendMsg(messages, UserMsg)
    /\ base' = Len(messages) + 1
    /\ pc' = "loop"
    /\ err' = ""
    /\ NoFrame
    /\ UNCHANGED <<max_iterations, nchunks, interrupts, calc>>

\* the line "clear"
Clear ==
    /\ pc = "prompt"
    /\ messages' = <<SystemMsg>>
    /\ base' = 1
    /\ UNCHANGED <<max_iterations, pc, i, reasoning, content, tool_calls, todo,
                   result, ret, err, exit, stream, nchunks, calls, invoked,
                   returned, outer, calc>>

\* the lines "quit" and "exit", end of input, or an interrupt at the prompt
Quit ==
    /\ pc = "prompt"
    /\ pc' = "exited"
    /\ UNCHANGED <<messages, max_iterations, i, reasoning, content, tool_calls,
                   todo, result, ret, err, exit, stream, nchunks, calls, base,
                   invoked, returned, outer, calc>>

\* KeyboardInterrupt raised anywhere inside agent_turn: no handler below
\* repl catches it (the tool functions catch Exception only)
Interrupt ==
    /\ pc \in InTurn
    /\ pc' = "prompt"
    /\ err' = "KeyboardInterrupt"
    /\ interrupts' = interrupts + 1
    /\ messages' = InterruptedTranscript(messages)
    /\ NoFrame
    /\ UNCHANGED <<max_iterations, nchunks, base, turns, calc>>

\* agent_turn returned, or raised an Exception that repl prints
TurnOver ==
    /\ pc \in {"done", "raised"}
    /\ pc' = "prompt"
    /\ err' = ""
    /\ NoFrame
    /\ UNCHANGED <<messages, max_iterations, nchunks, base, outer, calc>>

ReplFragments ==
    {ContentFragment(<<"x">>),
     ToolFragment(<<Opening(0, "read_file", Text(<<"{", " ", "p", "}">>))>>)}

NextRepl ==
    \/ UserInput
    \/ Clear
    \/ Quit
    \/ Interrupt
    \/ TurnOver
    \/ Call
    \/ CallFails
    \/ Exhausted
    \/ Chunk(ReplFragments)
    \/ StreamFails
    \/ EndStream
    \/ ExecTool
    \/ EndTools
    \/ Return

SpecRepl == InitRepl /\ [][NextRepl]_vars

\* an assistant message whose invocations have no tool message yet when the
\* next user message follows
CutInDispatch(n) ==
    /\ n + 1 <= Len(messages)
    /\ messages[n].role = "assistant"
    /\ messages[n].tool_calls.k = "val"
    /\ messages[n + 1].role = "user"

\* C13: in repl a KeyboardInterrupt at any position of agent_turn (between
\* fragments, between the assistant message and the tool messages, around a
\* tool call) ends the turn and brings the loop back to the prompt with the
\* transcript exactly as it was, every message in place and in order; the
\* next user line is appended to that transcript and starts a new turn.
C13_InterruptReturnsToPromptKeepingTranscript ==
    [][/\ interrupts' # interrupts =>
            /\ pc \in InTurn
            /\ pc' = "prompt"
            /\ messages' = messages
       /\ (turns' # turns /\ err = "KeyboardInterrupt") =>
            /\ messages' = Append(messages, UserMsg)
            /\ messages'[1] = SystemMsg
            /\ pc' = "loop"
            /\ i' = 0]_vars

C13_Witness ==
    /\ interrupts = 1
    /\ turns = 2
    /\ pc = "done"
    /\ exit = "final"
    /\ CutInDispatch(3)

\* the bounded trees: literals, names and one node of a class outside the
\* grammar of arithmetic, then operators, calls and keyword arguments over them
Leaves ==
    {Constant("int", 0), Constant("int", 2), Constant("float", 1),
     Constant("str", 0), Name("pi"), Name("x"), OtherNode("Subscript")}

Targets == {Name("abs"), Name("__import__"), OtherNode("Attribute")}

RECURSIVE Trees(_)
Trees(d) ==
    IF d = 0 THEN Leaves
    ELSE LET sub == Trees(d - 1)
         IN sub
            \cup {UnaryOp("USub", t) : t \in sub}
            \cup {BinOp("Div", Constant("int", 2), t) : t \in sub}
            \cup {BinOp("Pow", Constant("int", 0), t) : t \in sub}
            \cup {CallNode(f, <<t>>, <<>>) : f \in Targets, t \in sub}
            \cup {CallNode(Name("abs"), <<Constant("int", 2)>>, <<t>>) : t \in sub}
            \cup {UnaryOp("Not", Constant("int", 2)),
                  BinOp("FloorDiv", Constant("int", 2), Constant("int", 2)),
                  BinOp("Mod", Constant("int", 2), Constant("int", 0)),
                  BinOp("Add", Constant("float", 1), Constant("int", 2)),
                  CallNode(Name("floor"), <<Constant("float", 1)>>, <<>>),
                  BinOp("Pow", UnaryOp("USub", Constant("int", 2)),
                        BinOp("Div", Constant("float", 1), Constant("int", 2))),
                  CallNode(Name("abs"), <<>>, <<>>)}

Expressions == {Unparsable} \cup {Parsed(t) : t \in Trees(MaxDepth)}

InitCalc ==
    /\ AgentInit
    /\ max_iterations = 0
    /\ expr \in Expressions
    /\ payload = NoPayload

\* the tool function is called with the expression
Calculate ==
    /\ ~payload.done
    /\ payload' = calculate(expr)
    /\ UNCHANGED <<messages, max_iterations, pc, i, reasoning, content,
                   tool_calls, todo, result, ret, err, exit, stream, nchunks,
                   calls, base, invoked, returned, outer, expr>>

NextCalc == Calculate

SpecCalc == InitCalc /\ [][NextCalc]_vars

IsSuccessPayload(p) ==
    /\ Len(p) = 2
    /\ p[1][1] = "expression"
    /\ p[2][1] = "result"

IsErrorPayload(p) ==
    /\ Len(p) = 1
    /\ p[1][1] = "error"

RECURSIVE AllowListed(_)
\* every node of the tree is of an allow-listed kind
AllowListed(node) ==
    CASE node.kind = "Constant" -> node.type \in {"int", "float", "bool"}
      [] node.kind = "Name" -> node.id \in {"pi", "e"}
      [] node.kind = "BinOp" ->
            /\ node.op \in {"Add", "Sub", "Mult", "Div", "Pow", "Mod"}
            /\ \A n \in 1..2 : AllowListed(node.args[n])
      [] node.kind = "UnaryOp" ->
            /\ node.op \in {"UAdd", "USub"}
            /\ AllowListed(node.args[1])
      [] node.kind = "Call" ->
            /\ node.func[1].kind = "Name"
            /\ node.func[1].id \in SAFE_FUNCTIONS
            /\ \A n \in 1..Len(node.args) : AllowListed(node.args[n])
            /\ node.keywords = <<>>
      [] node.kind = "Expression" -> AllowListed(node.args[1])
      [] OTHER -> FALSE

\* C14: for every expression calculate returns the success payload
\* {expression, result} or an error payload {error}, and the success payload
\* only when every node of the parsed tree is of an allow-listed kind: a tree
\* with any other node anywhere, also inside a call's arguments, gets an
\* error payload.
C14_SuccessOnlyForAllowListedTrees ==
    payload.done =>
        /\ IsSuccessPayload(payload.ret) \/ IsErrorPayload(payload.ret)
        /\ IsSuccessPayload(payload.ret) =>
              expr.parsed /\ AllowListed(expr.tree)

\* the same over the nodes safe_eval_node visits, which are all nodes but the
\* keyword arguments of a call
RECURSIVE VisitedAllowListed(_)
VisitedAllowListed(node) ==
    CASE node.kind = "Call" ->
            /\ node.func[1].kind = "Name"
            /\ node.func[1].id \in SAFE_FUNCTIONS
            /\ \A n \in 1..Len(node.args) : VisitedAllowListed(node.args[n])
      [] node.kind \in {"BinOp", "UnaryOp", "Expression"} ->
            /\ node.kind = "BinOp" => node.op \in {"Add", "Sub", "Mult", "Div", "Pow", "Mod"}
            /\ node.kind = "UnaryOp" => node.op \in {"UAdd", "USub"}
            /\ \A n \in 1..Len(node.args) : VisitedAllowListed(node.args[n])
      [] OTHER -> AllowListed(node)

\* calculate never raises, and succeeds only over trees whose visited nodes
\* are all allow-listed
SuccessOnlyForVisitedAllowListed ==
    payload.done =>
        /\ IsSuccessPayload(payload.ret) \/ IsErrorPayload(payload.ret)
        /\ IsSuccessPayload(payload.ret) =>
              expr.parsed /\ VisitedAllowListed(expr.tree)

\* the tree of "__import__('os')"
ImportOs == CallNode(Name("__import__"), <<Constant("str", 0)>>, <<>>)

\* the text of the one error of a payload
ErrorText(p) == p[1][2]

\* C15 as the specification states it: calculate("__import__('os')") returns
\* an error payload that reports an unsupported expression type, and the
\* call target is never invoked.
C15_ImportReportsUnsupportedExpressionType ==
    (payload.done /\ expr = Parsed(ImportOs)) =>
        /\ IsErrorPayload(payload.ret)
        /\ ErrorText(payload.ret)[1] = "Unsupported expression type: "
        /\ payload.called = <<>>

\* C15, amended: calculate("__import__('os')") returns the error payload
\* {"error": "Unsupported function: __import__"}, and neither the call
\* target nor any other function is invoked.
C15_ImportReportsUnsupportedFunction ==
    (payload.done /\ expr = Parsed(ImportOs)) =>
        /\ IsErrorPayload(payload.ret)
        /\ ErrorText(payload.ret) = <<"Unsupported function: ", "__import__">>
        /\ payload.called = <<>>

C15_Witness ==
    /\ payload.done
    /\ expr = Parsed(ImportOs)
    /\ IsErrorPayload(payload.ret)

\* C16: the assistant message a round appends carries the answer text
\* exactly when the accumulated answer text is non-empty, the reasoning text
\* exactly when that is non-empty, and the tool list exactly when the stream
\* brought an invocation; with invocations and an empty answer text its
\* content key is present and None, neither "" nor left out.
C16_AssistantMessageShape ==
    AfterStream =>
        LET m == messages[base + 1]
            c == ContentOf(stream)
            r == ReasoningOf(stream)
            n == Len(AllDeltas(stream))
        IN /\ m.role = "assistant"
           /\ m.content.k = "val" <=> c # <<>>
           /\ m.content.k = "val" => m.content.v = c
           /\ m.reasoning_content.k = "val" <=> r # <<>>
           /\ m.reasoning_content.k = "val" => m.reasoning_content.v = r
           /\ m.tool_calls.k = "val" <=> n > 0
           /\ m.tool_calls.k = "val" => Len(m.tool_calls.v) > 0
           /\ (n > 0 /\ c = <<>>) => m.content.k = "none"
           /\ (n = 0 /\ c = <<>>) => m.content.k = "omitted"

C16_Witness ==
    /\ AfterStream
    /\ messages[base + 1].content.k = "none"
    /\ messages[base + 1].reasoning_content.k = "val"
    /\ messages[base + 1].tool_calls.k = "val"
    /\ content = <<>>

\* C17: within a turn the tools are invoked one at a time in ascending index
\* order, after the stream is exhausted and the assistant message appended:
\* a step that invokes the tool of index idx starts in the dispatch loop,
\* with the assistant message of the round in the transcript, the tool
\* message of every smaller index appended and every earlier invocation of a
\* smaller index; no step that consumes a fragment invokes a tool.
C17_ToolsRunInAscendingOrderAfterStream ==
    [][invoked' # invoked =>
         /\ pc = "tools"
         /\ stream' = stream
         /\ Len(messages) >= base + 1
         /\ messages[base + 1].role = "assistant"
         /\ Len(invoked') = Len(invoked) + 1
         /\ SubSeq(invoked', 1, Len(invoked)) = invoked
         /\ LET idx == invoked'[Len(invoked')].idx
            IN /\ \A k \in Keys(tool_calls) : k < idx => HasToolMsg(k)
               /\ \A n \in 1..Len(invoked) : invoked[n].idx < idx]_vars

C17_Witness ==
    /\ Len(invoked) = 2
    /\ invoked[1].idx = 0
    /\ invoked[2].idx = 1
    /\ tool_calls[1].idx = 1
    /\ HasToolMsg(0)
    /\ HasToolMsg(1)

\* the indices of the deltas a fragment carries
BorneBy(f) == {CarriedDeltas(f)[n].index : n \in 1..Len(CarriedDeltas(f))}

\* C18: identifier and name of an invocation are those of the first delta
\* bearing its index: a fragment consumed later leaves the identifier, the
\* name and the place of every invocation as they were and only appends to
\* the argument text of the indices it bears, also when its delta carries an
\* identifier or a name; the invocations of the other indices do not change.
C18_LaterDeltasOnlyAppendArguments ==
    [][(pc = "stream" /\ pc' = "stream" /\ stream' # stream) =>
         LET f == stream'[Len(stream')]
         IN /\ Len(tool_calls') >= Len(tool_calls)
            /\ \A n \in 1..Len(tool_calls) :
                 /\ tool_calls'[n].idx = tool_calls[n].idx
                 /\ tool_calls'[n].id = tool_calls[n].id
                 /\ tool_calls'[n].name = tool_calls[n].name
                 /\ IsPrefix(tool_calls[n].arguments, tool_calls'[n].arguments)
                 /\ tool_calls[n].idx \notin BorneBy(f) =>
                       tool_calls'[n] = tool_calls[n]]_vars

C18_Witness ==
    /\ pc = "stream"
    /\ AllDeltas(stream) =
         <<Opening(0, "nope", Text(<<"{">>)), Opening(1, "nope", None),
           Relabelling(0, Text(<<"}">>))>>
    /\ CallOf(0).id = IdOf(0)
    /\ CallOf(0).name = "nope"
    /\ CallOf(0).arguments = <<"{", "}">>
    /\ CallOf(1).arguments = <<>>

\* the remote-service call of a round, or the consumption of its stream, failed
ServiceFailed == err = "ServiceError"

\* C19: when the remote-service call or the consumption of its stream fails
\* in a round, agent_turn makes no further remote-service call, the failure
\* leaves agent_turn to its caller (no value is returned), and the transcript
\* holds exactly the messages appended before the failure.
C19_ServiceFailureEndsTurnWithoutRetry ==
    /\ [](ServiceFailed =>
            /\ pc = "raised"
            /\ ret = None
            /\ exit = ""
            /\ calls = i
            /\ Len(returned) = i - 1
            /\ Len(messages) = base)
    /\ [][ServiceFailed => (calls' = calls /\ messages' = messages /\ pc' = pc)]_vars

C19_Witness ==
    /\ ServiceFailed
    /\ pc = "raised"
    /\ i = 2
    /\ Len(stream) >= 1
    /\ Len(messages) = base
    /\ Len(messages) >= 5

\* the invocations the fragments of one stream fold to
FoldedCalls(frags) == FoldDeltas(<<>>, AllDeltas(frags)).calls

\* C20: the aggregation state belongs to one remote-service call: every
\* round starts with empty reasoning text, empty answer text and an empty
\* invocation mapping, so that the accumulators, and with them the assistant
\* message the round appends, are a function of the fragments of that round
\* alone.
C20_AggregationStateIsPerRound ==
    /\ [][calls' # calls =>
            (reasoning' = <<>> /\ content' = <<>> /\ tool_calls' = <<>>)]_vars
    /\ []((pc = "stream" \/ AfterStream) =>
            /\ reasoning = ReasoningOf(stream)
            /\ content = ContentOf(stream)
            /\ tool_calls = FoldedCalls(stream))
    /\ [](AfterStream =>
            messages[base + 1] =
                AssistantMsg(ContentOf(stream), ReasoningOf(stream),
                             FoldedCalls(stream)))

C20_Witness ==
    /\ i = 2
    /\ pc = "ret"
    /\ messages[3].reasoning_content.k = "val"
    /\ messages[3].tool_calls.k = "val"
    /\ Len(stream) = 1
    /\ reasoning = <<>>
    /\ tool_calls = <<>>
    /\ Len(content) > 0
    /\ messages[base + 1].reasoning_content.k = "omitted"
    /\ messages[base + 1].tool_calls.k = "omitted"

\* the tool function called for the invocation of idx has returned: the
\* call did not fail to bind its arguments
ToolReturned(idx) == Called(idx) /\ ~(RaisedAt(idx) /\ err = "TypeError")

\* C21: every result a registered tool returns, every value calculate can
\* return as a result included, is serialized: for every invocation whose
\* tool function returned, json.dumps does not fail and the tool message
\* with the serialized payload is appended.
C21_ToolResultsAreSerialized ==
    \A idx \in Keys(tool_calls) :
        ToolReturned(idx) => (~RaisedAt(idx) /\ HasToolMsg(idx))

\* the same of the tools other than calculate, whose payloads hold text,
\* integers and lists of them
OtherToolResultsAreSerialized ==
    \A idx \in Keys(tool_calls) :
        (ToolReturned(idx) /\ CallOf(idx).name # "calculate") =>
            (~RaisedAt(idx) /\ HasToolMsg(idx))

\* ---------------------------------------------------------------------------
\* agent_turn run to its end: the interpreter always takes the next step of
\* the one thread, every stream ends (a turn consumes at most MaxChunks
\* fragments) and every tool call returns or raises

LiveFragments ==
    {ContentFragment(<<"x">>),
     ToolFragment(<<Opening(0, "read_file", Text(<<"{", "p", "}">>))>>),
     ToolFragment(<<Opening(1, "nope", Text(<<"{", "}">>))>>),
     ToolFragment(<<Opening(1, "read_file", Text(<<"{", "}">>))>>)}

NextLive ==
    \/ Call
    \/ CallFails
    \/ Exhausted
    \/ Chunk(LiveFragments)
    \/ StreamFails
    \/ EndStream
    \/ ExecTool
    \/ EndTools
    \/ Return

SpecLive == Init /\ [][NextLive]_vars /\ WF_vars(NextLive)

\* the invocations listed in the assistant messages of a transcript
RECURSIVE InvocationsIn(_)
InvocationsIn(msgs) ==
    IF msgs = <<>> THEN 0
    ELSE (IF Head(msgs).role = "assistant" /\ Head(msgs).tool_calls.k = "val"
          THEN Len(Head(msgs).tool_calls.v) ELSE 0)
         + InvocationsIn(Tail(msgs))

\* agent_turn has returned or raised
TurnEnded == pc \in {"done", "raised"}

\* C22: agent_turn terminates when every stream is finite and every tool
\* call comes back: it makes at most max_iterations remote-service calls,
\* it ends, and when it returns the transcript has grown by at most one
\* assistant message per round and one tool message per invocation listed
\* in those assistant messages, and by nothing else.
C22_TurnTerminatesWithinBounds ==
    /\ [](calls <= max_iterations)
    /\ [](pc = "done" =>
            /\ Len(messages) <= 2 + calls + InvocationsIn(messages)
            /\ Cardinality({n \in 3..Len(messages) :
                              messages[n].role = "assistant"}) <= calls
            /\ \A n \in 3..Len(messages) : messages[n].role \in {"assistant", "tool"})
    /\ <>TurnEnded

C22_Witness ==
    /\ pc = "done"
    /\ exit = "exhausted"
    /\ max_iterations = 2
    /\ calls = 2
    /\ InvocationsIn(messages) = 3
    /\ Len(messages) = 2 + calls + InvocationsIn(messages)

\* the final argument text of the invocation of idx is empty or blank
BlankArguments(idx) == Strip(CallOf(idx).arguments) = <<>>

\* the tool message of idx holds the payload of the JSONDecodeError branch
ParseErrorMsg(idx) ==
    /\ HasToolMsg(idx)
    /\ messages[SlotOf(idx)].content = Val(Dumps(ParseErrorResult))

\* C23: an invocation whose final argument text is empty or only whitespace
\* is no parse error: it stands for the empty argument set, the named tool,
\* if registered, is called with no arguments, and its outcome is appended
\* as the tool message of the invocation.
C23_BlankArgumentsCallToolWithoutArguments ==
    \A idx \in Keys(tool_calls) :
        (Visited(idx) /\ BlankArguments(idx)) =>
            /\ ParseArgs(CallOf(idx).arguments) = [kind |-> "dict", keys |-> {}]
            /\ InRegistry(CallOf(idx).name) => Called(idx)
            /\ ~RaisedAt(idx)
            /\ HasToolMsg(idx)
            /\ ~ParseErrorMsg(idx)

\* what holds of a blank argument text whatever the tool: it is parsed as the
\* empty argument set and a registered tool is called with no arguments; the
\* tool message follows when the function takes a call without arguments
\* and its payload is serialized
BlankArgumentsAreEmptyArgumentSet ==
    \A idx \in Keys(tool_calls) :
        (Visited(idx) /\ BlankArguments(idx)) =>
            /\ ParseArgs(CallOf(idx).arguments) = [kind |-> "dict", keys |-> {}]
            /\ InRegistry(CallOf(idx).name) => Called(idx)
            /\ RaisedAt(idx) =>
                  (err = "TypeError" /\ ~Binds(CallOf(idx).name, {}))
            /\ ~RaisedAt(idx) => (HasToolMsg(idx) /\ ~ParseErrorMsg(idx))

====
